---- MODULE Spec2Model ----
(***************************************************************************)
(* A model of the scroll-smoothness analysis of scroll_analysis.py:        *)
(*   - analyze_scroll's sampling loop over a frame source (Spec),          *)
(*   - analyze_scroll's rating / issue policy and compare_videos' winner   *)
(*     selection, applied to the statistics of two recordings              *)
(*     (SpecCompare).                                                      *)
(*   - the rating and the issues of one recording (SpecRating),            *)
(*   - the motion estimation on a pair of frames (SpecMotion),             *)
(*   - the timing statistics of an interval series (SpecTiming),           *)
(*   - the statistics, the report and the problem windows of collected     *)
(*     series (SpecSeries),                                                *)
(*   - the output code of two analyses running side by side                *)
(*     (SpecParallel),                                                     *)
(*   - _ranges_from_mask on a boolean mask (SpecMask),                     *)
(*   - the compare button of dashboard.py and its worker threads           *)
(*     (SpecDashboard),                                                    *)
(*   - the capture loop of realtime_analyzer.py (SpecCapture).             *)
(* Floating point statistics are modelled on the grid of whole units       *)
(* (2 stands for 2.0); NaN is a value of its own and every comparison with *)
(* it is false, as in IEEE arithmetic.                                     *)
(***************************************************************************)
EXTENDS Integers, Sequences, FiniteSets, TLC

(***************************************************************************)
(* Program constants (scroll_analysis.py, lines 12-30).                    *)
(***************************************************************************)
FRAME_SKIP == 5
MAX_FRAMES == 2000
BLOCK_SIZE == 32

JITTER_EXCELLENT == 3
JITTER_GOOD == 8
JITTER_FAIR == 16
JITTER_POOR == 16

JERK_EXCELLENT == 2
JERK_GOOD == 5
JERK_FAIR == 10
JERK_POOR == 10

(***************************************************************************)
(* Bounds of the model.                                                    *)
(***************************************************************************)
\* statistics of a recording are drawn from 0..MaxJerk, 0..MaxJitter, ...
MaxJerk == 11
MaxJitter == 17
MaxFps == 1
MaxAvg == 1
\* the estimated frame rates drawn are the multiples of FpsStep up to MaxFps * FpsStep
FpsStep == 30
\* finite frame sources hold 0..MaxSrcLen frames
MaxSrcLen == 12
\* the frames of a source: FrameH rows of FrameW pixels, FrameMs apart,
\* showing a gradient that scrolls by ScrollStep grey levels per frame
FrameH == 65
FrameW == 1
FrameMs == 16
ScrollStep == 3
\* motion estimation is applied to pairs of frames of 1..MaxMotionH rows and
\* 1..MaxMotionW columns whose grey levels are multiples of LevelStep
MaxMotionH == 65
MaxMotionW == 2
MaxLevel == 1
LevelStep == 100
\* worker threads of the dashboard that are followed
MaxWorkers == 3

(***************************************************************************)
(* Floating point values and their comparisons.                            *)
(***************************************************************************)
NaN == -1

FLt(a, b) == a /= NaN /\ b /= NaN /\ a < b
FGt(a, b) == a /= NaN /\ b /= NaN /\ a > b
FGe(a, b) == a /= NaN /\ b /= NaN /\ a >= b

\* Python's None, and a result that has not been produced yet
None == [kind |-> "None"]
Pending == [kind |-> "Pending"]

VARIABLES
    \* ---- analyze_scroll, sampling loop
    source,          \* the frame source: [opened, endless, len, bad]
    pc,              \* position of analyze_scroll
    src_pos,         \* frames the capture has delivered or failed on
    prev_frame, frame_idx, processed,
    velocities, frame_intervals, sample_times, last_ts,
    result,          \* what analyze_scroll returned
    errors,          \* the ERROR lines printed
    gray_frame,      \* the grey frame in hand (line 69)
    \* ---- rating and comparison
    report,          \* [1..2 -> report | None | Pending]: analyze_scroll's results
    comparison,      \* what compare_videos returned
    \* ---- the written outputs of two analyses running side by side
    apc,             \* [1..2 -> position of analysis i in its output code]
    figures,         \* pyplot's figures, the current one last
    written,         \* [1..2 -> the files in the out_dir of analysis i]
    \* ---- _ranges_from_mask on its own
    flags,           \* the boolean mask handed to _ranges_from_mask
    flag_ranges,     \* what _ranges_from_mask returned
    \* ---- dashboard.py: the compare button and its worker threads
    compare_btn,     \* state of self.compare_btn: "normal" or "disabled"
    ui_pc,           \* [at, video_path1]: the Tk thread in _upload_two_videos
    worker_pc,       \* [1..MaxWorkers -> position of worker thread w]
    comparison_mode, \* self.comparison_mode
    \* ---- realtime_analyzer.py: run_until_end
    cap_pc,          \* position of run_until_end
    frame_counter, no_move_count,
    prev_shot,       \* prev_frame of run_until_end
    shots            \* the captures taken so far, frame_0.png first

loopVars == <<source, pc, src_pos, prev_frame, frame_idx, processed,
              velocities, frame_intervals, sample_times, last_ts,
              result, errors, gray_frame>>
outVars == <<apc, figures, written>>
maskVars == <<flags, flag_ranges>>
uiVars == <<compare_btn, ui_pc, worker_pc, comparison_mode>>
capVars == <<cap_pc, frame_counter, no_move_count, prev_shot, shots>>
extraVars == <<maskVars, uiVars, capVars>>
cmpVars == <<report, comparison, outVars, extraVars>>
vars == <<loopVars, cmpVars>>

(***************************************************************************)
(* Rating and issues (analyze_scroll, lines 109-143).                      *)
(***************************************************************************)
\* the rating when one band suffices to qualify (or for and)
Smoothness_EitherBand(jerkiness, jitter) ==
    IF FLt(jerkiness, JERK_EXCELLENT) \/ FLt(jitter, JITTER_EXCELLENT)
    THEN "Excellent"
    ELSE IF FLt(jerkiness, JERK_GOOD) \/ FLt(jitter, JITTER_GOOD)
    THEN "Good"
    ELSE IF FLt(jerkiness, JERK_FAIR) \/ FLt(jitter, JITTER_FAIR)
    THEN "Fair"
    ELSE "Poor"

\* the rating with the first jerkiness comparison turned around
Smoothness_FlippedTest(jerkiness, jitter) ==
    IF FGt(jerkiness, JERK_EXCELLENT) /\ FLt(jitter, JITTER_EXCELLENT)
    THEN "Excellent"
    ELSE IF FLt(jerkiness, JERK_GOOD) /\ FLt(jitter, JITTER_GOOD)
    THEN "Good"
    ELSE IF FLt(jerkiness, JERK_FAIR) /\ FLt(jitter, JITTER_FAIR)
    THEN "Fair"
    ELSE "Poor"

Smoothness(jerkiness, jitter) ==
    IF FLt(jerkiness, JERK_EXCELLENT) /\ FLt(jitter, JITTER_EXCELLENT)
    THEN "Excellent"
    ELSE IF FLt(jerkiness, JERK_GOOD) /\ FLt(jitter, JITTER_GOOD)
    THEN "Good"
    ELSE IF FLt(jerkiness, JERK_FAIR) /\ FLt(jitter, JITTER_FAIR)
    THEN "Fair"
    ELSE "Poor"

\* the checks without the one of line 139 (low activity)
IssuesFound_NoActivityCheck(jerkiness, jitter, estimated_fps, avg_speed) ==
    (IF FGe(jerkiness, JERK_POOR) THEN <<"High jerkiness">>
     ELSE IF FGe(jerkiness, JERK_FAIR) THEN <<"Moderate jerkiness">>
     ELSE <<>>)
    \o (IF FGe(jitter, JITTER_POOR) THEN <<"High frame-time jitter">>
        ELSE IF FGe(jitter, JITTER_FAIR) THEN <<"Moderate frame-time jitter">>
        ELSE <<>>)
    \o (IF FGt(estimated_fps, 0) /\ FLt(estimated_fps, 50)
        THEN <<"Low frame rate">> ELSE <<>>)

IssuesFound(jerkiness, jitter, estimated_fps, avg_speed) ==
    (IF FGe(jerkiness, JERK_POOR) THEN <<"High jerkiness">>
     ELSE IF FGe(jerkiness, JERK_FAIR) THEN <<"Moderate jerkiness">>
     ELSE <<>>)
    \o (IF FGe(jitter, JITTER_POOR) THEN <<"High frame-time jitter">>
        ELSE IF FGe(jitter, JITTER_FAIR) THEN <<"Moderate frame-time jitter">>
        ELSE <<>>)
    \o (IF FGt(estimated_fps, 0) /\ FLt(estimated_fps, 50)
        THEN <<"Low frame rate">> ELSE <<>>)
    \o (IF FLt(avg_speed, 1) THEN <<"Low scroll activity">> ELSE <<>>)

\* the issue list without the entry added when nothing was found
Issues_NoFallback(jerkiness, jitter, estimated_fps, avg_speed) ==
    IssuesFound(jerkiness, jitter, estimated_fps, avg_speed)

Issues(jerkiness, jitter, estimated_fps, avg_speed) ==
    LET found == IssuesFound(jerkiness, jitter, estimated_fps, avg_speed)
    IN  IF found = <<>> THEN <<"No major problems detected">> ELSE found

\* the report analyze_scroll builds from the statistics of a recording
BuildReport(s) ==
    [kind                    |-> "Report",
     average_scroll_activity |-> s.avg_speed,
     scroll_jerkiness        |-> s.jerkiness,
     frame_time_jitter_ms    |-> s.jitter,
     estimated_fps           |-> s.estimated_fps,
     smoothness_rating       |-> Smoothness(s.jerkiness, s.jitter),
     issues                  |-> Issues(s.jerkiness, s.jitter,
                                        s.estimated_fps, s.avg_speed)]

(***************************************************************************)
(* The statistics a recording can have: activity mean and deviation,       *)
(* interval deviation, estimated frame rate.  The deviation of the         *)
(* activity series is NaN exactly when its mean is (a NaN entry).          *)
(***************************************************************************)
JerkVals == 0..MaxJerk \cup {NaN}
JitterVals == 0..MaxJitter
FpsVals == {FpsStep * k : k \in 0..MaxFps}
AvgVals == 0..MaxAvg \cup {NaN}

StatsInputs ==
    {s \in [avg_speed: AvgVals, jerkiness: JerkVals, jitter: JitterVals,
            estimated_fps: FpsVals] :
        (s.jerkiness = NaN) <=> (s.avg_speed = NaN)}

\* the recordings compare_videos is given: any jerkiness, jitter and frame
\* rate, at one activity level
CompareInputs == {s \in StatsInputs : s.avg_speed \in {MaxAvg, NaN}}

(***************************************************************************)
(* compare_videos (lines 321-386 of scroll_analysis.py).                   *)
(***************************************************************************)
rating_order(rating) ==
    CASE rating = "Excellent" -> 4
      [] rating = "Good" -> 3
      [] rating = "Fair" -> 2
      [] rating = "Poor" -> 1
      [] OTHER -> 0

better_jerkiness(report1, report2) ==
    IF FLt(report1.scroll_jerkiness, report2.scroll_jerkiness)
    THEN "Video 1" ELSE "Video 2"

better_jitter(report1, report2) ==
    IF FLt(report1.frame_time_jitter_ms, report2.frame_time_jitter_ms)
    THEN "Video 1" ELSE "Video 2"

\* the frame-rate winner chosen like the other two (lower wins)
better_fps_LowerWins(report1, report2) ==
    IF FLt(report1.estimated_fps, report2.estimated_fps)
    THEN "Video 1" ELSE "Video 2"

better_fps(report1, report2) ==
    IF FGt(report1.estimated_fps, report2.estimated_fps)
    THEN "Video 1" ELSE "Video 2"

\* the winner when line 369 is missing: assigned in the tie-break only
overall_winner_TieBreakOnly(report1, report2) ==
    IF report1.smoothness_rating = report2.smoothness_rating
    THEN IF FLt(report1.frame_time_jitter_ms, report2.frame_time_jitter_ms)
         THEN "Video 1"
         ELSE IF FGt(report1.frame_time_jitter_ms, report2.frame_time_jitter_ms)
         THEN "Video 2"
         ELSE IF FLt(report1.scroll_jerkiness, report2.scroll_jerkiness)
         THEN "Video 1"
         ELSE "Video 2 (or tie)"
    ELSE "undefined"

\* the winner when the tie-break looks at the jerkiness before the jitter
overall_winner_JerkinessFirst(report1, report2) ==
    IF report1.smoothness_rating = report2.smoothness_rating
    THEN IF FLt(report1.scroll_jerkiness, report2.scroll_jerkiness)
         THEN "Video 1"
         ELSE IF FLt(report1.frame_time_jitter_ms, report2.frame_time_jitter_ms)
         THEN "Video 1"
         ELSE "Video 2 (or tie)"
    ELSE IF rating_order(report1.smoothness_rating)
              > rating_order(report2.smoothness_rating)
         THEN "Video 1" ELSE "Video 2"

overall_winner(report1, report2) ==
    IF report1.smoothness_rating = report2.smoothness_rating
    THEN IF FLt(report1.frame_time_jitter_ms, report2.frame_time_jitter_ms)
         THEN "Video 1"
         ELSE IF FGt(report1.frame_time_jitter_ms, report2.frame_time_jitter_ms)
         THEN "Video 2"
         ELSE IF FLt(report1.scroll_jerkiness, report2.scroll_jerkiness)
         THEN "Video 1"
         ELSE "Video 2 (or tie)"
    ELSE IF rating_order(report1.smoothness_rating)
              > rating_order(report2.smoothness_rating)
         THEN "Video 1" ELSE "Video 2"

\* lines 333-334: analyze_scroll on recording i, recording 1 first; it
\* returns None or the report of the recording's statistics
AnalyzeRecording(i) ==
    /\ report[i] = Pending
    /\ i = 2 => report[1] /= Pending
    /\ \/ report' = [report EXCEPT ![i] = None]
       \/ \E s \in CompareInputs :
              report' = [report EXCEPT ![i] = BuildReport(s)]
    /\ UNCHANGED <<comparison, outVars, loopVars, extraVars>>

\* lines 336-338: one of the analyses gave no report
CompareFailed ==
    /\ comparison = Pending
    /\ report[1] /= Pending /\ report[2] /= Pending
    /\ report[1] = None \/ report[2] = None
    /\ comparison' = None
    /\ UNCHANGED <<report, outVars, loopVars, extraVars>>

\* a comparison built as soon as one of the two analyses gave a report
CompareReports_OneSuffices ==
    /\ comparison = Pending
    /\ report[1] /= Pending /\ report[2] /= Pending
    /\ report[1].kind = "Report" \/ report[2].kind = "Report"
    /\ comparison' =
          [kind           |-> "Comparison",
           overall_winner |-> IF report[1].kind = "Report"
                              THEN "Video 1" ELSE "Video 2"]
    /\ UNCHANGED <<report, outVars, loopVars, extraVars>>

\* lines 340-386: the comparison of the two reports
CompareReports ==
    /\ comparison = Pending
    /\ report[1].kind = "Report" /\ report[2].kind = "Report"
    /\ comparison' =
          [kind             |-> "Comparison",
           overall_winner   |-> overall_winner(report[1], report[2]),
           better_jerkiness |-> better_jerkiness(report[1], report[2]),
           better_jitter    |-> better_jitter(report[1], report[2]),
           better_fps       |-> better_fps(report[1], report[2])]
    /\ UNCHANGED <<report, outVars, loopVars, extraVars>>

LoopIdle ==
    /\ source = None /\ pc = "idle" /\ src_pos = 0
    /\ prev_frame = None /\ frame_idx = 0 /\ processed = 0
    /\ velocities = <<>> /\ frame_intervals = <<>> /\ sample_times = <<>>
    /\ last_ts = None /\ result = Pending /\ errors = <<>>
    /\ gray_frame = None

\* no analysis has reached its output code, pyplot holds no figure
OutputIdle ==
    /\ apc = [i \in 1..2 |-> "idle"]
    /\ figures = <<>>
    /\ written = [i \in 1..2 |-> [json |-> None, dashboard |-> None]]

\* no mask is in hand
MaskIdle == flags = <<>> /\ flag_ranges = Pending

\* the dashboard as __init__ leaves it (lines 24-72): the button can be
\* pressed, no worker thread exists
DashboardIdle ==
    /\ compare_btn = "normal"
    /\ ui_pc = [at |-> "mainloop", video_path1 |-> ""]
    /\ worker_pc = [w \in 1..MaxWorkers |-> "unborn"]
    /\ comparison_mode = FALSE

\* run_until_end has not been called
CaptureIdle ==
    /\ cap_pc = "idle" /\ frame_counter = 0 /\ no_move_count = 0
    /\ prev_shot = None /\ shots = <<>>

ExtraIdle == MaskIdle /\ DashboardIdle /\ CaptureIdle

CompareIdle ==
    /\ report = [i \in 1..2 |-> Pending]
    /\ comparison = Pending
    /\ OutputIdle
    /\ ExtraIdle

InitCompare == LoopIdle /\ CompareIdle

NextCompare ==
    \/ \E i \in 1..2 : AnalyzeRecording(i)
    \/ CompareFailed
    \/ CompareReports

SpecCompare == InitCompare /\ [][NextCompare]_vars

(***************************************************************************)
(* The rating and the issues of one recording, for every combination of    *)
(* statistics (analyze_scroll, lines 100-224).                             *)
(***************************************************************************)
RateRecording ==
    /\ report[1] = Pending
    /\ \E s \in StatsInputs : report' = [report EXCEPT ![1] = BuildReport(s)]
    /\ UNCHANGED <<comparison, outVars, loopVars, extraVars>>

SpecRating == InitCompare /\ [][RateRecording]_vars

(***************************************************************************)
(* The frame source of analyze_scroll: whether cv2.VideoCapture opens it,  *)
(* how many frames it holds (or that it never ends), and which frame, if   *)
(* any, fails to decode.  Frame k (from 0) is delivered as its grey raster *)
(* (what cv2.cvtColor makes of it), FrameH rows of FrameW pixels in        *)
(* 0..255, stamped k * FrameMs milliseconds.                               *)
(***************************************************************************)
Sources ==
    {s \in [opened: BOOLEAN, endless: BOOLEAN, len: 0..MaxSrcLen,
            bad: {{}} \cup {{k} : k \in 0..(MaxSrcLen - 1)}] :
        /\ s.endless => s.len = 0
        /\ ~s.endless => \A k \in s.bad : k < s.len
        /\ ~s.opened => (~s.endless /\ s.len = 0)}

\* an endless source is followed for ReadHorizon frames, more than the loop
\* reads before the cap stops it
ReadHorizon == FRAME_SKIP * MAX_FRAMES
WithinHorizon == source.endless => src_pos < ReadHorizon

HasFrame(k) == source.endless \/ k < source.len
\* ret of cap.read() at the capture's position
Ret == HasFrame(src_pos) /\ src_pos \notin source.bad
Timestamp(k) == k * FrameMs
GrayAt(k) ==
    [r \in 1..FrameH |-> [c \in 1..FrameW |-> (k * ScrollStep + r + c) % 256]]

Some(x) == [kind |-> "Some", v |-> x]

(***************************************************************************)
(* Block motion of a frame pair (lines 72-83): the mean over the blocks    *)
(* range(0, h - BLOCK_SIZE, BLOCK_SIZE) of the mean of the uint8           *)
(* difference now - prev, kept as the fraction num / den; den = 0 is the   *)
(* nan that the mean of no block is.                                       *)
(***************************************************************************)
U8Sub(a, b) == (a - b) % 256

Min(a, b) == IF a <= b THEN a ELSE b
Max(a, b) == IF a >= b THEN a ELSE b

BlockStarts(h) == {y \in 0..(h - 1) : y < h - BLOCK_SIZE /\ y % BLOCK_SIZE = 0}

RECURSIVE RowSum(_, _, _)
RowSum(now, prev, c) ==
    IF c = 0 THEN 0
    ELSE U8Sub(now[c], prev[c]) + RowSum(now, prev, c - 1)

RECURSIVE RowsSum(_, _, _, _)
\* the differences of rows first..last
RowsSum(gray, prev, first, last) ==
    IF first > last THEN 0
    ELSE RowSum(gray[last], prev[last], Len(gray[last]))
         + RowsSum(gray, prev, first, last - 1)

RECURSIVE BlocksSum(_, _, _)
BlocksSum(gray, prev, starts) ==
    IF starts = {} THEN 0
    ELSE LET y == CHOOSE y \in starts : TRUE
         IN  RowsSum(gray, prev, y + 1, y + BLOCK_SIZE)
             + BlocksSum(gray, prev, starts \ {y})

Activity(gray, prev) ==
    LET h == Len(gray)
        w == Len(gray[1])
        starts == BlockStarts(h)
    IN  [num |-> BlocksSum(gray, prev, starts),
         den |-> BLOCK_SIZE * w * Cardinality(starts)]

(***************************************************************************)
(* analyze_scroll (lines 33-98 and its return, scroll_analysis.py).        *)
(***************************************************************************)
\* lines 36-39: the capture does not open
OpenFailed ==
    /\ pc = "open" /\ ~source.opened
    /\ errors' = Append(errors, "ERROR: Could not open video")
    /\ result' = None
    /\ pc' = "done"
    /\ UNCHANGED <<source, src_pos, prev_frame, frame_idx, processed,
                   velocities, frame_intervals, sample_times, last_ts, gray_frame, cmpVars>>

\* lines 36-50: the capture opens, the loop's variables are set
Opened ==
    /\ pc = "open" /\ source.opened
    /\ prev_frame' = None /\ frame_idx' = 0 /\ processed' = 0
    /\ velocities' = <<>> /\ frame_intervals' = <<>> /\ sample_times' = <<>>
    /\ last_ts' = None
    /\ pc' = "loop"
    /\ UNCHANGED <<source, src_pos, result, errors, gray_frame, cmpVars>>

\* line 52: the cap is reached
LoopExit ==
    /\ pc = "loop" /\ ~(processed < MAX_FRAMES)
    /\ pc' = "finish"
    /\ UNCHANGED <<source, src_pos, prev_frame, frame_idx, processed,
                   velocities, frame_intervals, sample_times, last_ts,
                   result, errors, gray_frame, cmpVars>>

\* lines 53-55: no frame is returned (end of stream or decode failure)
ReadFailed ==
    /\ pc = "loop" /\ processed < MAX_FRAMES
    /\ WithinHorizon
    /\ ~Ret
    /\ src_pos' = IF HasFrame(src_pos) THEN src_pos + 1 ELSE src_pos
    /\ pc' = "finish"
    /\ UNCHANGED <<source, prev_frame, frame_idx, processed,
                   velocities, frame_intervals, sample_times, last_ts,
                   result, errors, gray_frame, cmpVars>>

\* the skipped frame also opens an interval (the timing code moved above
\* the skip test)
ReadSkipped_RecordsInterval ==
    /\ pc = "loop" /\ processed < MAX_FRAMES
    /\ WithinHorizon
    /\ Ret
    /\ frame_idx % FRAME_SKIP /= 0
    /\ frame_intervals' = IF last_ts /= None
                           THEN Append(frame_intervals, Timestamp(src_pos) - last_ts.v)
                           ELSE frame_intervals
    /\ last_ts' = Some(Timestamp(src_pos))
    /\ frame_idx' = frame_idx + 1
    /\ src_pos' = src_pos + 1
    /\ UNCHANGED <<source, pc, prev_frame, processed, velocities,
                   sample_times, result, errors, gray_frame, cmpVars>>

\* the skip branch without its frame_idx += 1
ReadSkipped_NoIncrement ==
    /\ pc = "loop" /\ processed < MAX_FRAMES
    /\ WithinHorizon
    /\ Ret
    /\ frame_idx % FRAME_SKIP /= 0
    /\ src_pos' = src_pos + 1
    /\ UNCHANGED <<source, pc, prev_frame, frame_idx, processed, velocities,
                   frame_intervals, sample_times, last_ts, result, errors,
                   gray_frame, cmpVars>>

\* lines 53-61: a frame that is not sampled
ReadSkipped ==
    /\ pc = "loop" /\ processed < MAX_FRAMES
    /\ WithinHorizon
    /\ Ret
    /\ frame_idx % FRAME_SKIP /= 0
    /\ frame_idx' = frame_idx + 1
    /\ src_pos' = src_pos + 1
    /\ UNCHANGED <<source, pc, prev_frame, processed, velocities,
                   frame_intervals, sample_times, last_ts, result, errors,
                   gray_frame, cmpVars>>

\* lines 53-88: a sampled frame
ReadRetained ==
    /\ pc = "loop" /\ processed < MAX_FRAMES
    /\ WithinHorizon
    /\ Ret
    /\ frame_idx % FRAME_SKIP = 0
    /\ LET timestamp == Timestamp(src_pos)
           gray == GrayAt(src_pos)
       IN  /\ frame_intervals' = IF last_ts /= None
                                  THEN Append(frame_intervals, timestamp - last_ts.v)
                                  ELSE frame_intervals
           /\ last_ts' = Some(timestamp)
           /\ velocities' = IF prev_frame /= None
                             THEN Append(velocities, Activity(gray, prev_frame.v))
                             ELSE velocities
           /\ sample_times' = IF prev_frame /= None
                               THEN Append(sample_times, timestamp)
                               ELSE sample_times
           /\ prev_frame' = Some(gray)
    /\ frame_idx' = frame_idx + 1
    /\ processed' = processed + 1
    /\ src_pos' = src_pos + 1
    /\ UNCHANGED <<source, pc, result, errors, gray_frame, cmpVars>>

\* the report is built whatever was sampled (lines 96-98 missing)
FinishNoFrames_ReportsAnyway ==
    /\ pc = "finish"
    /\ Len(velocities) = 0
    /\ result' = [kind |-> "Report", frames_processed |-> processed]
    /\ pc' = "done"
    /\ UNCHANGED <<source, src_pos, prev_frame, frame_idx, processed,
                   velocities, frame_intervals, sample_times, last_ts,
                   errors, gray_frame, cmpVars>>

\* lines 90-98: no activity value was collected
FinishNoFrames ==
    /\ pc = "finish"
    /\ Len(velocities) = 0
    /\ errors' = Append(errors, "ERROR: No frames processed")
    /\ result' = None
    /\ pc' = "done"
    /\ UNCHANGED <<source, src_pos, prev_frame, frame_idx, processed,
                   velocities, frame_intervals, sample_times, last_ts, gray_frame, cmpVars>>

\* the report counting the activity values instead of the samples
FinishReport_CountsEntries ==
    /\ pc = "finish"
    /\ Len(velocities) /= 0
    /\ result' = [kind |-> "Report", frames_processed |-> Len(velocities)]
    /\ pc' = "done"
    /\ UNCHANGED <<source, src_pos, prev_frame, frame_idx, processed,
                   velocities, frame_intervals, sample_times, last_ts,
                   errors, gray_frame, cmpVars>>

\* lines 90-318: the report is built and returned; its statistics, rating
\* and issues are those of BuildReport
FinishReport ==
    /\ pc = "finish"
    /\ Len(velocities) /= 0
    /\ result' = [kind |-> "Report", frames_processed |-> processed]
    /\ pc' = "done"
    /\ UNCHANGED <<source, src_pos, prev_frame, frame_idx, processed,
                   velocities, frame_intervals, sample_times, last_ts,
                   errors, gray_frame, cmpVars>>

Init ==
    /\ source \in Sources
    /\ pc = "open" /\ src_pos = 0
    /\ prev_frame = None /\ frame_idx = 0 /\ processed = 0
    /\ velocities = <<>> /\ frame_intervals = <<>> /\ sample_times = <<>>
    /\ last_ts = None /\ result = Pending /\ errors = <<>>
    /\ gray_frame = None
    /\ CompareIdle

Next ==
    \/ OpenFailed
    \/ Opened
    \/ LoopExit
    \/ ReadFailed
    \/ ReadSkipped
    \/ ReadRetained
    \/ FinishNoFrames
    \/ FinishReport

Spec == Init /\ [][Next]_vars

(***************************************************************************)
(* Motion estimation on a pair of frames (analyze_scroll, lines 69-84):    *)
(* the frames are drawn, the activity of the pair is computed.             *)
(***************************************************************************)
GrayLevels == {(k * LevelStep) % 256 : k \in 0..MaxLevel}

\* a grey frame of h rows and w columns: level a in the rows of the first
\* block, level b below
BandedFrame(h, w, a, b) ==
    [r \in 1..h |-> [c \in 1..w |-> IF r <= BLOCK_SIZE THEN a ELSE b]]

MotionPairs ==
    {<<BandedFrame(h, w, f[1], f[2]), BandedFrame(h, w, f[3], f[4])>> :
        h \in 1..MaxMotionH, w \in 1..MaxMotionW,
        f \in [1..4 -> GrayLevels]}

\* pairs of frames whose sizes may differ
MixedHeights ==
    {1, BLOCK_SIZE, BLOCK_SIZE + 1, 2 * BLOCK_SIZE, MaxMotionH}
MixedPairs ==
    {<<BandedFrame(d[1], d[2], f[1], f[2]),
       BandedFrame(d[3], d[4], f[3], f[4])>> :
        d \in MixedHeights \X (1..MaxMotionW)
               \X MixedHeights \X (1..MaxMotionW),
        f \in [1..4 -> GrayLevels]}

\* the rows of the slice f[y : y + BLOCK_SIZE]
SliceRows(f, y) == Max(0, Min(Len(f), y + BLOCK_SIZE) - y)

\* numpy can subtract the block slices of the two frames: in each dimension
\* the sizes are equal or one of them is 1 (broadcasting); the slices of
\* gray are full blocks
Combinable(gray, prev) ==
    /\ \A y \in BlockStarts(Len(gray)) :
           SliceRows(prev, y) \in {1, BLOCK_SIZE}
    /\ BlockStarts(Len(gray)) /= {} =>
           \/ Len(prev[1]) = Len(gray[1])
           \/ Len(prev[1]) = 1
           \/ Len(gray[1]) = 1

\* a frame as broadcasting reads it in blocks of w columns: a slice of one
\* row stands for every row of its block, one column for every column
Stretched(f, h, w) ==
    [r \in 1..h |->
        LET y == BLOCK_SIZE * ((r - 1) \div BLOCK_SIZE)
            row == IF Len(f) >= y + BLOCK_SIZE THEN r ELSE Min(y + 1, Len(f))
        IN  [c \in 1..w |-> f[row][IF Len(f[1]) = 1 THEN 1 ELSE c]]]

\* lines 71-84: the activity of the frame in hand against the previous one
EstimateMotion ==
    /\ pc = "motion"
    /\ Combinable(gray_frame.v, prev_frame.v)
    /\ LET h == Len(gray_frame.v)
           w == Max(Len(gray_frame.v[1]), Len(prev_frame.v[1]))
       IN  velocities' = Append(velocities,
                                Activity(Stretched(gray_frame.v, h, w),
                                         Stretched(prev_frame.v, h, w)))
    /\ pc' = "estimated"
    /\ UNCHANGED <<source, src_pos, prev_frame, frame_idx, processed,
                   frame_intervals, sample_times, last_ts, result, errors,
                   gray_frame, cmpVars>>

\* line 78 on slices numpy cannot subtract: a ValueError leaves
\* analyze_scroll
MotionRaises ==
    /\ pc = "motion"
    /\ ~Combinable(gray_frame.v, prev_frame.v)
    /\ result' = [kind |-> "Raised", error |-> "ValueError"]
    /\ pc' = "raised"
    /\ UNCHANGED <<source, src_pos, prev_frame, frame_idx, processed,
                   velocities, frame_intervals, sample_times, last_ts,
                   errors, gray_frame, cmpVars>>

InitMotion ==
    /\ \E p \in MotionPairs \cup MixedPairs :
           prev_frame = Some(p[1]) /\ gray_frame = Some(p[2])
    /\ source = None /\ pc = "motion" /\ src_pos = 0
    /\ frame_idx = 0 /\ processed = 0
    /\ velocities = <<>> /\ frame_intervals = <<>> /\ sample_times = <<>>
    /\ last_ts = None /\ result = Pending /\ errors = <<>>
    /\ CompareIdle

NextMotion ==
    \/ EstimateMotion
    \/ MotionRaises

SpecMotion == InitMotion /\ [][NextMotion]_vars

(***************************************************************************)
(* Properties of the rating and of the comparison (SpecCompare).           *)
(***************************************************************************)
\* the band table of the rating policy, 4 = Excellent .. 1 = Poor
JerkBand(j) ==
    IF FLt(j, 2) THEN 4 ELSE IF FLt(j, 5) THEN 3 ELSE IF FLt(j, 10) THEN 2 ELSE 1
JitterBand(t) ==
    IF FLt(t, 3) THEN 4 ELSE IF FLt(t, 8) THEN 3 ELSE IF FLt(t, 16) THEN 2 ELSE 1
BandRating(b) ==
    CASE b = 4 -> "Excellent" [] b = 3 -> "Good" [] b = 2 -> "Fair" [] OTHER -> "Poor"
\* Excellent > Good > Fair > Poor
Rank(rating) ==
    CASE rating = "Excellent" -> 4 [] rating = "Good" -> 3
      [] rating = "Fair" -> 2 [] rating = "Poor" -> 1

HasReport(i) == report[i].kind = "Report"
Jerk(i) == report[i].scroll_jerkiness
Jitter(i) == report[i].frame_time_jitter_ms
Fps(i) == report[i].estimated_fps
Rating(i) == report[i].smoothness_rating
Compared == comparison.kind = "Comparison"
\* both compared reports carry numbers (no NaN statistic)
ComparedNumbers == Compared /\ Jerk(1) /= NaN /\ Jerk(2) /= NaN
\* a winner that carries a tie marker instead of naming one recording only
TieMarked(w) == w \notin {"Video 1", "Video 2"}

\* C1: the rating of every report is the worst of its jerkiness band and its
\* jitter band (Excellent iff jerkiness < 2 and jitter < 3, otherwise Good iff
\* jerkiness < 5 and jitter < 8, otherwise Fair iff jerkiness < 10 and
\* jitter < 16, otherwise Poor), and two reports with the same jerkiness and
\* jitter have the same rating whatever their other statistics are.
C1_RatingIsWorstBand ==
    /\ \A i \in 1..2 : HasReport(i) =>
          /\ Rating(i) = BandRating(Min(JerkBand(Jerk(i)), JitterBand(Jitter(i))))
          /\ Rating(i) = "Excellent" <=> (FLt(Jerk(i), 2) /\ FLt(Jitter(i), 3))
          /\ Rating(i) = "Good" <=>
                /\ ~(FLt(Jerk(i), 2) /\ FLt(Jitter(i), 3))
                /\ FLt(Jerk(i), 5) /\ FLt(Jitter(i), 8)
          /\ Rating(i) = "Fair" <=>
                /\ ~(FLt(Jerk(i), 5) /\ FLt(Jitter(i), 8))
                /\ FLt(Jerk(i), 10) /\ FLt(Jitter(i), 16)
          /\ Rating(i) = "Poor" <=> ~(FLt(Jerk(i), 10) /\ FLt(Jitter(i), 16))
    /\ (HasReport(1) /\ HasReport(2) /\ Jerk(1) = Jerk(2) /\ Jitter(1) = Jitter(2))
          => Rating(1) = Rating(2)

\* a report whose jerkiness is in the Excellent band and whose jitter is in
\* the Fair band, rated Fair; the other recording has the same jerkiness and
\* jitter at another frame rate
C1_Witness ==
    /\ HasReport(1) /\ HasReport(2)
    /\ Jerk(1) = 1 /\ Jitter(1) = 9 /\ Rating(1) = "Fair"
    /\ Jerk(2) = 1 /\ Jitter(2) = 9 /\ Fps(1) /= Fps(2)

\* C2: the rating is monotonic: of two reports with the same jitter the one
\* with the higher jerkiness is never rated better, and of two reports with
\* the same jerkiness the one with the higher jitter is never rated better.
C2_Monotonic ==
    \A a, b \in 1..2 : (HasReport(a) /\ HasReport(b)) =>
        /\ (Jitter(a) = Jitter(b) /\ FGe(Jerk(b), Jerk(a)))
              => Rank(Rating(b)) <= Rank(Rating(a))
        /\ (Jerk(a) = Jerk(b) /\ FGe(Jitter(b), Jitter(a)))
              => Rank(Rating(b)) <= Rank(Rating(a))

\* two reports of equal jitter, the second with more jerkiness and a
\* strictly worse rating
C2_Witness ==
    /\ HasReport(1) /\ HasReport(2)
    /\ Jitter(1) = Jitter(2) /\ FLt(Jerk(1), Jerk(2))
    /\ Rank(Rating(2)) < Rank(Rating(1))

\* C3: overall_winner follows the whole tie-break chain: the better rating
\* wins; on equal ratings the lower jitter wins; on equal rating and jitter
\* the lower jerkiness wins, recording 1 or recording 2; a tie is marked if
\* and only if rating, jitter and jerkiness are all equal.
C3_TieBreakChain ==
    ComparedNumbers =>
        LET w == comparison.overall_winner
            sameRating == Rating(1) = Rating(2)
            sameJitter == Jitter(1) = Jitter(2)
        IN  /\ Rank(Rating(1)) > Rank(Rating(2)) => w = "Video 1"
            /\ Rank(Rating(1)) < Rank(Rating(2)) => w = "Video 2"
            /\ (sameRating /\ FLt(Jitter(1), Jitter(2))) => w = "Video 1"
            /\ (sameRating /\ FLt(Jitter(2), Jitter(1))) => w = "Video 2"
            /\ (sameRating /\ sameJitter /\ FLt(Jerk(1), Jerk(2))) => w = "Video 1"
            /\ (sameRating /\ sameJitter /\ FLt(Jerk(2), Jerk(1))) => w = "Video 2"
            /\ TieMarked(w) <=> (sameRating /\ sameJitter /\ Jerk(1) = Jerk(2))

\* C4: when the two recordings have the same jerkiness and the same jitter,
\* overall_winner is a tie and every per-metric winner whose two values are
\* equal is a tie as well.
C4_EqualMetricsTie ==
    (ComparedNumbers /\ Jerk(1) = Jerk(2) /\ Jitter(1) = Jitter(2)) =>
        /\ TieMarked(comparison.overall_winner)
        /\ TieMarked(comparison.better_jerkiness)
        /\ TieMarked(comparison.better_jitter)
        /\ Fps(1) = Fps(2) => TieMarked(comparison.better_fps)

\* C5: for any two reports compare_videos produces a comparison, and its
\* overall_winner is one of the three outcomes recording 1, recording 2, tie
\* (which the code writes "Video 2 (or tie)").
C5_WinnerTotal ==
    /\ Compared =>
          comparison.overall_winner \in {"Video 1", "Video 2", "Video 2 (or tie)"}
    /\ (HasReport(1) /\ HasReport(2)) => comparison /= None

\* comparisons of differently rated reports, and one decided by the last
\* link of the chain
C5_Witness ==
    /\ Compared
    /\ Rating(1) = "Poor" /\ Rating(2) = "Good"
    /\ comparison.overall_winner = "Video 2"

\* C6: whenever the two values differ, better_jerkiness names the recording
\* with the lower jerkiness, better_jitter the one with the lower jitter and
\* better_fps the one with the higher estimated frame rate.
C6_PerMetricWinners ==
    Compared =>
        /\ FLt(Jerk(1), Jerk(2)) => comparison.better_jerkiness = "Video 1"
        /\ FLt(Jerk(2), Jerk(1)) => comparison.better_jerkiness = "Video 2"
        /\ FLt(Jitter(1), Jitter(2)) => comparison.better_jitter = "Video 1"
        /\ FLt(Jitter(2), Jitter(1)) => comparison.better_jitter = "Video 2"
        /\ FGt(Fps(1), Fps(2)) => comparison.better_fps = "Video 1"
        /\ FGt(Fps(2), Fps(1)) => comparison.better_fps = "Video 2"

\* a comparison in which the three metrics differ and do not agree
C6_Witness ==
    /\ Compared
    /\ FLt(Jerk(1), Jerk(2)) /\ FLt(Jitter(2), Jitter(1)) /\ FGt(Fps(1), Fps(2))
    /\ comparison.better_jerkiness = "Video 1"
    /\ comparison.better_jitter = "Video 2"
    /\ comparison.better_fps = "Video 1"

(***************************************************************************)
(* Properties of the sampling loop (Spec).                                 *)
(***************************************************************************)
LoopExited == pc \in {"finish", "done"}

\* C7: after any sequence of frame reads (sampled, skipped, failed) the
\* activity series and the interval series have the same length, which is
\* max(0, samples - 1) for the number of sampled frames.
C7_SeriesLengths ==
    /\ Len(velocities) = Len(frame_intervals)
    /\ Len(velocities) = Max(0, processed - 1)

\* a source of 12 frames read to its end: 3 samples, 9 skipped frames, 2 entries
C7_Witness ==
    /\ pc = "done" /\ frame_idx = 12 /\ processed = 3
    /\ Len(velocities) = 2 /\ Len(frame_intervals) = 2

\* the steps analyze_scroll has left at most: FRAME_SKIP reads for each
\* sample the cap still allows, less the frames skipped since the last
\* sample, then the exit and the return
Measure ==
    CASE pc = "open" -> FRAME_SKIP * MAX_FRAMES + 3
      [] pc = "loop" -> FRAME_SKIP * (MAX_FRAMES - processed)
                        - ((frame_idx - 1) % FRAME_SKIP) + 2
      [] pc = "finish" -> 1
      [] OTHER -> 0

\* C8: the sampling loop ends for every source: every step of analyze_scroll
\* (a skipped frame too) lowers a measure that is never negative, so no run
\* has more than FRAME_SKIP * MAX_FRAMES + 3 steps, and an endless source is
\* never followed as far as ReadHorizon; on a source that never ends and
\* never fails the loop ends because the cap of MAX_FRAMES samples is
\* reached, after more reads than samples (skipped frames do not count).
C8_LoopTerminates ==
    /\ [][Measure' < Measure]_vars
    /\ [](Measure >= 0)
    /\ [](pc = "loop" => WithinHorizon)
    /\ [](((pc = "done") /\ source.endless /\ source.bad = {})
            => (processed = MAX_FRAMES /\ frame_idx > processed))

\* the endless source in the loop: 3 samples after 14 reads, the measure
\* lowered by each of them (by 5 on entering the loop)
C8_Witness ==
    /\ pc = "loop" /\ source.endless /\ source.bad = {}
    /\ processed = 3 /\ frame_idx = 14 /\ src_pos = 14
    /\ Measure = (FRAME_SKIP * MAX_FRAMES + 3) - 5 - 14

\* C9: a decode failure on a frame that is not the first one is skipped and
\* sampling goes on: on such a source the loop is left only when the source
\* is exhausted or the cap is reached, and no series entry is recorded for
\* the failed frame.
C9_DecodeFailureRecoverable ==
    (LoopExited /\ source.opened /\ 0 \notin source.bad) =>
        /\ \/ processed >= MAX_FRAMES
           \/ ~source.endless /\ src_pos >= source.len
        /\ Len(velocities) = Len(frame_intervals)

\* C10: when the source does not open or its first frame does not decode,
\* analyze_scroll never has a report or a series entry, and it ends with
\* None after one ERROR line.
C10_FatalSourceNoReport ==
    (~source.opened \/ 0 \in source.bad) =>
        /\ result.kind /= "Report"
        /\ velocities = <<>> /\ frame_intervals = <<>> /\ sample_times = <<>>
        /\ Len(errors) <= 1
        /\ pc = "done" => (result = None /\ Len(errors) = 1)

\* a source of several frames whose first frame fails to decode, analysed
C10_Witness ==
    /\ pc = "done" /\ source.opened /\ 0 \in source.bad /\ source.len > 1
    /\ result = None /\ errors = <<"ERROR: No frames processed">>

\* C11: when analyze_scroll ends on a source whose first frame was read but
\* which gave fewer than 2 samples, it returns a report-shaped result (not
\* None), which tells this outcome from the fatal one of an unreadable
\* source.
C11_InsufficientDataReport ==
    (pc = "done" /\ source.opened /\ 0 \notin source.bad
       /\ source.len > 0 /\ processed < 2)
        => (result /= None /\ result.kind = "Report")

(***************************************************************************)
(* Properties of the issue list (SpecRating).                              *)
(***************************************************************************)
IssueList == report[1].issues
HasIssue(x) == \E k \in DOMAIN IssueList : IssueList[k] = x
AvgActivity(i) == report[i].average_scroll_activity

\* the place of an issue in the order of the checks
CheckOrder(x) ==
    CASE x \in {"High jerkiness", "Moderate jerkiness"} -> 1
      [] x \in {"High frame-time jitter", "Moderate frame-time jitter"} -> 2
      [] x = "Low frame rate" -> 3
      [] x = "Low scroll activity" -> 4
      [] OTHER -> 5

\* C15: the issue list follows the band table: high jerkiness iff
\* jerkiness >= 10, moderate jerkiness iff 5 <= jerkiness < 10, high jitter
\* iff jitter >= 16, moderate jitter iff 8 <= jitter < 16, low frame rate iff
\* 0 < estimated fps < 50, low scroll activity iff mean activity < 1, and
\* the issues stand in the order of these checks (stated for statistics
\* that are numbers).
C15_IssueBands ==
    (HasReport(1) /\ Jerk(1) /= NaN /\ AvgActivity(1) /= NaN) =>
        /\ HasIssue("High jerkiness") <=> FGe(Jerk(1), 10)
        /\ HasIssue("Moderate jerkiness")
             <=> (FGe(Jerk(1), 5) /\ FLt(Jerk(1), 10))
        /\ HasIssue("High frame-time jitter") <=> FGe(Jitter(1), 16)
        /\ HasIssue("Moderate frame-time jitter")
             <=> (FGe(Jitter(1), 8) /\ FLt(Jitter(1), 16))
        /\ HasIssue("Low frame rate") <=> (FGt(Fps(1), 0) /\ FLt(Fps(1), 50))
        /\ HasIssue("Low scroll activity") <=> FLt(AvgActivity(1), 1)
        /\ \A a, b \in DOMAIN IssueList :
               a < b => CheckOrder(IssueList[a]) < CheckOrder(IssueList[b])

\* C16: the issue list of a report is never empty, and "No major problems
\* detected" is in it exactly when no other issue is, and is then the only
\* entry.
C16_IssuesNeverEmpty ==
    HasReport(1) =>
        /\ Len(IssueList) >= 1
        /\ HasIssue("No major problems detected")
             <=> ~\E k \in DOMAIN IssueList :
                     IssueList[k] /= "No major problems detected"
        /\ HasIssue("No major problems detected")
             => IssueList = <<"No major problems detected">>

\* a steady recording with some activity, and the check that finds nothing
C16_Witness ==
    /\ HasReport(1) /\ Jerk(1) = 0 /\ Jitter(1) = 0
    /\ Fps(1) = 0 /\ AvgActivity(1) = MaxAvg
    /\ IssueList = <<"No major problems detected">>

(***************************************************************************)
(* Properties of the motion estimation (SpecMotion).                       *)
(***************************************************************************)
Estimated == pc = "estimated"
ActivityValue == velocities[1]
\* the mean of an empty list of block means is nan
IsNaN(a) == a.den = 0

AbsDiff(a, b) == IF a >= b THEN a - b ELSE b - a

\* the two frames have the same number of rows and of columns
SameShape ==
    /\ Len(gray_frame.v) = Len(prev_frame.v)
    /\ Len(gray_frame.v[1]) = Len(prev_frame.v[1])

RECURSIVE SumFn(_, _)
SumFn(f, S) ==
    IF S = {} THEN 0
    ELSE LET x == CHOOSE x \in S : TRUE
         IN  f[x] + SumFn(f, S \ {x})

\* the pixels of the blocks of a frame of h rows and w columns
BlockPixels(h, w) ==
    {<<r, c>> \in (1..h) \X (1..w) :
        \E y \in BlockStarts(h) : r > y /\ r <= y + BLOCK_SIZE}

\* C12: the activity of a frame against itself is the number 0, whatever
\* the height and the width of the frame, a height of at most one block
\* (32 rows) included.
C12_IdenticalFramesZero ==
    (Estimated /\ gray_frame = prev_frame)
        => (~IsNaN(ActivityValue) /\ ActivityValue.num = 0)

\* C13: the activity of two frames of equal size is the mean over the block
\* pixels of |now - prev| taken over the integers, whichever frame is the
\* brighter one (all blocks have the same number of pixels, so the mean of
\* the block means is the mean over their pixels).
C13_AbsolutePixelDifference ==
    (Estimated /\ SameShape /\ ~IsNaN(ActivityValue)) =>
        LET now == gray_frame.v
            prev == prev_frame.v
            px == BlockPixels(Len(now), Len(now[1]))
        IN  /\ ActivityValue.den = Cardinality(px)
            /\ ActivityValue.num =
                 SumFn([p \in px |-> AbsDiff(now[p[1]][p[2]],
                                             prev[p[1]][p[2]])], px)

(***************************************************************************)
(* Statistics of the collected series (analyze_scroll, lines 100-104).     *)
(* Activity values are whole units or NaN, intervals are whole             *)
(* milliseconds.  A mean is kept as the exact fraction num / den, a        *)
(* standard deviation as sqrt(sq) / den; Whole gives the integer part,     *)
(* which compares with a whole threshold as the value itself does.         *)
(***************************************************************************)
\* the floors of the two out-of-band tests (lines 177 and 191)
MOTION_FLOOR == 1
TIMING_FLOOR == 8

Abs(x) == IF x >= 0 THEN x ELSE -x

RECURSIVE SeqSum(_)
SeqSum(xs) == IF Len(xs) = 0 THEN 0 ELSE Head(xs) + SeqSum(Tail(xs))

RECURSIVE SeqSumSq(_)
SeqSumSq(xs) ==
    IF Len(xs) = 0 THEN 0 ELSE Head(xs) * Head(xs) + SeqSumSq(Tail(xs))

\* Len(xs)^2 times the variance of xs (np.std is the population deviation)
Spread(xs) == Len(xs) * SeqSumSq(xs) - SeqSum(xs) * SeqSum(xs)

Zero == [num |-> 0, den |-> 1]
MeanOf(xs) == [num |-> SeqSum(xs), den |-> Len(xs)]
StdZero == [sq |-> 0, den |-> 1]
StdOf(xs) == [sq |-> Spread(xs), den |-> Len(xs)]

RECURSIVE RootFrom(_, _)
RootFrom(k, x) == IF (k + 1) * (k + 1) > x THEN k ELSE RootFrom(k + 1, x)

Whole(q) == q.num \div q.den
WholeStd(s) == RootFrom(0, s.sq \div (s.den * s.den))

HasNaN(xs) == \E i \in DOMAIN xs : xs[i] = NaN

\* lines 100-101
AvgSpeedOf(vs) == IF HasNaN(vs) THEN NaN ELSE Whole(MeanOf(vs))
JerkinessOf(vs) == IF HasNaN(vs) THEN NaN ELSE WholeStd(StdOf(vs))
\* lines 102-103
JitterOf(intervals) ==
    IF Len(intervals) > 0 THEN StdOf(intervals) ELSE StdZero
MeanIntervalOf(intervals) ==
    IF Len(intervals) > 0 THEN MeanOf(intervals) ELSE Zero

\* a / q in floating point; Python raises when the divisor is 0.0
ZeroDivisionError == [kind |-> "ZeroDivisionError"]
FloatDiv(a, q) ==
    IF q.num = 0 THEN ZeroDivisionError
    ELSE IF q.num > 0 THEN [num |-> a * q.den, den |-> q.num]
    ELSE [num |-> -(a * q.den), den |-> -q.num]

\* the frame rate computed without looking at the sign of the mean
EstimatedFpsOf_Unguarded(mean_frame_interval) ==
    FloatDiv(1000, mean_frame_interval)

\* line 104
EstimatedFpsOf(mean_frame_interval) ==
    IF mean_frame_interval.num > 0
    THEN FloatDiv(1000, mean_frame_interval)
    ELSE Zero

\* the interval series the timing statistics are applied to
MaxN == 5
BaseGap == 16
LongGap == 40
GapVals == {-BaseGap, BaseGap, LongGap}
TimingInputs ==
    UNION {[1..n -> GapVals \cup {0}] : n \in 0..MaxN}

\* lines 102-104 applied to an interval series
TimingStatistics ==
    /\ pc = "timing"
    /\ LET mean == MeanIntervalOf(frame_intervals)
           fps == EstimatedFpsOf(mean)
       IN  result' = IF fps = ZeroDivisionError
                     THEN [kind |-> "Raised"]
                     ELSE [kind                   |-> "Timing",
                           frame_time_jitter      |-> JitterOf(frame_intervals),
                           mean_frame_interval_ms |-> mean,
                           estimated_fps          |-> fps]
    /\ pc' = "done"
    /\ UNCHANGED <<source, src_pos, prev_frame, frame_idx, processed,
                   velocities, frame_intervals, sample_times, last_ts,
                   errors, gray_frame, cmpVars>>

InitTiming ==
    /\ frame_intervals \in TimingInputs
    /\ source = None /\ pc = "timing" /\ src_pos = 0
    /\ prev_frame = None /\ frame_idx = 0 /\ processed = 0
    /\ velocities = <<>> /\ sample_times = <<>>
    /\ last_ts = None /\ result = Pending /\ errors = <<>>
    /\ gray_frame = None
    /\ CompareIdle

SpecTiming == InitTiming /\ [][TimingStatistics]_vars

RECURSIVE ScanMask_DropsTail(_, _, _, _, _)
ScanMask_DropsTail(mask, min_len, i, start, ranges) ==
    IF i = Len(mask)
    THEN ranges
    ELSE IF mask[i + 1] /\ start = None
         THEN ScanMask_DropsTail(mask, min_len, i + 1, Some(i), ranges)
    ELSE IF ~mask[i + 1] /\ start /= None
         THEN ScanMask_DropsTail(mask, min_len, i + 1, None,
                                 IF i - start.v >= min_len
                                 THEN Append(ranges, <<start.v, i - 1>>)
                                 ELSE ranges)
    ELSE ScanMask_DropsTail(mask, min_len, i + 1, start, ranges)

\* lines 158-173: the loop over the mask and the test after it
RECURSIVE ScanMask(_, _, _, _, _)
ScanMask(mask, min_len, i, start, ranges) ==
    IF i = Len(mask)
    THEN IF start /= None /\ Len(mask) - start.v >= min_len
         THEN Append(ranges, <<start.v, Len(mask) - 1>>)
         ELSE ranges
    ELSE IF mask[i + 1] /\ start = None
         THEN ScanMask(mask, min_len, i + 1, Some(i), ranges)
    ELSE IF ~mask[i + 1] /\ start /= None
         THEN ScanMask(mask, min_len, i + 1, None,
                       IF i - start.v >= min_len
                       THEN Append(ranges, <<start.v, i - 1>>)
                       ELSE ranges)
    ELSE ScanMask(mask, min_len, i + 1, start, ranges)

\* the ranges when a single flagged entry makes a range
ranges_from_mask_AnyLength(mask) == ScanMask(mask, 1, 0, None, <<>>)

\* lines 158-173, with the default min_len
ranges_from_mask(mask) == ScanMask(mask, 2, 0, None, <<>>)

\* np.abs(xs - mean) > max(std, floor) at every entry, in exact arithmetic:
\* with n entries of sum S, |x - S/n| > sqrt(Spread)/n is (n*x - S)^2 >
\* Spread, and |x - S/n| > floor is |n*x - S| > n * floor
OutOfBand(xs, floor) ==
    LET n == Len(xs)
        total == SeqSum(xs)
        spread == Spread(xs)
    IN  [i \in 1..n |->
            LET d == n * xs[i] - total
            IN  d * d > spread /\ Abs(d) > n * floor]

\* the activity mask when only the floor counts
motion_mask_FloorOnly(vs) ==
    [i \in 1..Len(vs) |->
        Abs(Len(vs) * vs[i] - SeqSum(vs)) > Len(vs) * MOTION_FLOOR]

\* line 177; every comparison with nan is false
motion_mask(vs) ==
    IF HasNaN(vs) THEN [i \in 1..Len(vs) |-> FALSE]
    ELSE OutOfBand(vs, MOTION_FLOOR)

\* lines 190-191
timing_mask(intervals) == OutOfBand(intervals, TIMING_FLOOR)

\* round(ms / 1000.0, 2), in hundredths of a second
Sec(ms) == (ms + 5) \div 10

\* lines 178-188
MotionWindows(vs, times) ==
    LET rs == ranges_from_mask(motion_mask(vs))
    IN  [k \in 1..Len(rs) |->
            [type      |-> "motion_spike",
             start_sec |-> Sec(times[rs[k][1] + 1]),
             end_sec   |-> Sec(times[rs[k][2] + 1])]]

\* lines 192-205
TimingWindows(intervals, times) ==
    LET rs == ranges_from_mask(timing_mask(intervals))
    IN  [k \in 1..Len(rs) |->
            LET s_idx == Min(rs[k][1], Len(times) - 1)
                e_idx == Min(rs[k][2] + 1, Len(times) - 1)
            IN  [type      |-> "timing_jitter",
                 start_sec |-> Sec(times[s_idx + 1]),
                 end_sec   |-> Sec(times[e_idx + 1])]]

\* lines 175-207
ProblemWindows(vs, intervals, times) ==
    IF Len(times) > 0
    THEN MotionWindows(vs, times)
         \o (IF Len(intervals) > 0
             THEN TimingWindows(intervals, times) ELSE <<>>)
    ELSE <<>>

\* lines 100-224: the report of a recording, from its series
SeriesReport(vs, intervals, times, frames) ==
    LET mean == MeanIntervalOf(intervals)
    IN  BuildReport([avg_speed     |-> AvgSpeedOf(vs),
                     jerkiness     |-> JerkinessOf(vs),
                     jitter        |-> WholeStd(JitterOf(intervals)),
                     estimated_fps |-> Whole(EstimatedFpsOf(mean))])
        @@ [frames_processed       |-> frames,
            mean_frame_interval_ms |-> mean,
            problem_windows        |-> ProblemWindows(vs, intervals, times)]

(***************************************************************************)
(* The end of analyze_scroll on collected series (lines 92-224): the       *)
(* series are drawn, the report is built from them.                        *)
(***************************************************************************)
\* activity values of the drawn series, lengths of the spike series and
\* their baseline levels
ActHigh == 10
MaxSpikeLen == 9
MaxBase == 2
ActVals == {0, ActHigh}

\* any short series; the series of frames not higher than one block (nan);
\* 10 samples of identical frames at a constant spacing; a series whose
\* entries 4-6 are 10 times the other ones, at a constant spacing
SeriesInputs ==
    UNION {[vs : [1..n -> ActVals], gaps : [1..n -> GapVals]] : n \in 0..MaxN}
    \cup UNION {[vs : {[i \in 1..n |-> NaN]}, gaps : [1..n -> GapVals]] :
                   n \in 1..MaxN}
    \cup {[vs |-> [i \in 1..9 |-> 0], gaps |-> [i \in 1..9 |-> c]] :
             c \in {BaseGap, BaseGap + 1}}
    \cup {[vs |-> [i \in 1..n |-> IF i \in 4..6 THEN 10 * b ELSE b],
           gaps |-> [i \in 1..n |-> BaseGap]] :
             n \in 6..MaxSpikeLen, b \in 1..MaxBase}

\* line 85: the timestamps of the samples after the first one, which is at 0
SampleTimes(gaps) == [i \in 1..Len(gaps) |-> SeqSum(SubSeq(gaps, 1, i))]

\* lines 100-318: the report of the collected series
FinishSeries ==
    /\ pc = "finish"
    /\ Len(velocities) > 0
    /\ result' = SeriesReport(velocities, frame_intervals, sample_times,
                              processed)
    /\ pc' = "done"
    /\ UNCHANGED <<source, src_pos, prev_frame, frame_idx, processed,
                   velocities, frame_intervals, sample_times, last_ts,
                   errors, gray_frame, cmpVars>>

InitSeries ==
    /\ \E s \in SeriesInputs :
          /\ velocities = s.vs /\ frame_intervals = s.gaps
          /\ sample_times = SampleTimes(s.gaps)
          /\ processed \in (IF Len(s.vs) = 0 THEN {0, 1} ELSE {Len(s.vs) + 1})
    /\ last_ts = IF processed = 0 THEN None
                 ELSE Some(SeqSum(frame_intervals))
    /\ frame_idx = IF processed = 0 THEN 0
                   ELSE FRAME_SKIP * (processed - 1) + 1
    /\ src_pos = frame_idx
    /\ source = None /\ pc = "finish"
    /\ prev_frame = None /\ gray_frame = None
    /\ result = Pending /\ errors = <<>>
    /\ CompareIdle

NextSeries ==
    \/ FinishNoFrames
    \/ FinishSeries

SpecSeries == InitSeries /\ [][NextSeries]_vars

(***************************************************************************)
(* Properties of the report of a series (SpecSeries).                      *)
(***************************************************************************)
Reported == pc = "done" /\ result.kind = "Report"
Windows == result.problem_windows

\* 9 activity values of 0 (10 samples of identical frames of more than one
\* block) at a constant spacing that gives 50 frames per second or more
SteadySeries ==
    /\ Len(velocities) = 9
    /\ \A i \in DOMAIN velocities : velocities[i] = 0
    /\ \E c \in 1..20 : \A i \in DOMAIN frame_intervals : frame_intervals[i] = c

SteadyStatistics ==
    /\ StdOf(velocities).sq = 0 /\ result.scroll_jerkiness = 0
    /\ StdOf(frame_intervals).sq = 0 /\ result.frame_time_jitter_ms = 0
    /\ result.smoothness_rating = "Excellent"
    /\ Windows = <<>>

NonDecreasing == \A i \in DOMAIN frame_intervals : frame_intervals[i] >= 0

\* entries s..e (counted from 0) of a mask are all flagged
Flagged(mask, s, e) == \A i \in s..e : mask[i + 1]

\* C18: when the timestamps of the samples never go back, every problem
\* window of the report ends no earlier than it starts, and it comes from a
\* run of at least 2 consecutive out-of-band entries s..e of its series
\* with its two ends read inside the sample-time array: at s and e for a
\* motion window, at s and min(e + 1, last) for a timing window.
C18_WindowsWellFormed ==
    (Reported /\ NonDecreasing) =>
        \A k \in DOMAIN Windows :
            LET w == Windows[k]
                n == Len(sample_times)
            IN  /\ w.end_sec >= w.start_sec
                /\ \E s, e \in 0..(n - 1) :
                      /\ e >= s + 1
                      /\ IF w.type = "motion_spike"
                         THEN /\ Flagged(motion_mask(velocities), s, e)
                              /\ w.start_sec = Sec(sample_times[s + 1])
                              /\ w.end_sec = Sec(sample_times[e + 1])
                         ELSE /\ w.type = "timing_jitter"
                              /\ Flagged(timing_mask(frame_intervals), s, e)
                              /\ w.start_sec = Sec(sample_times[s + 1])
                              /\ w.end_sec
                                   = Sec(sample_times[Min(e + 1, n - 1) + 1])

\* two late samples that move much and come late: one window of each kind
C18_Witness ==
    /\ Reported /\ NonDecreasing
    /\ velocities = <<0, 0, 0, ActHigh, ActHigh>>
    /\ frame_intervals = <<BaseGap, BaseGap, BaseGap, LongGap, LongGap>>
    /\ Len(Windows) = 2
    /\ Windows[1].type = "motion_spike" /\ Windows[2].type = "timing_jitter"
    /\ Windows[1].end_sec > Windows[1].start_sec

\* entries 4-6 are 10 times the other entries, which are all at the
\* baseline b >= 1, and the intervals are all equal
SpikeSeries ==
    /\ Len(velocities) >= 6
    /\ \E b \in 1..MaxBase :
          \A i \in DOMAIN velocities :
              velocities[i] = IF i \in 4..6 THEN 10 * b ELSE b
    /\ \A i \in DOMAIN frame_intervals : frame_intervals[i] = frame_intervals[1]

\* one motion window, over entries 4-6 exactly, and no timing window
OneSpikeWindow ==
    /\ ranges_from_mask(motion_mask(velocities)) = << <<3, 5>> >>
    /\ ranges_from_mask(timing_mask(frame_intervals)) = <<>>
    /\ Windows = << [type      |-> "motion_spike",
                     start_sec |-> Sec(sample_times[4]),
                     end_sec   |-> Sec(sample_times[6])] >>

\* C19: a series whose entries 4-6 are 10 times all its other entries, at
\* equal intervals, gives exactly one motion_spike window, over entries 4-6,
\* and no timing_jitter window, whatever its length and its baseline.
C19_SpikeAnyLength == (Reported /\ SpikeSeries) => OneSpikeWindow

\* C19 as amended: such a series of at least 7 entries, with a baseline of
\* at least 1, gives exactly one motion_spike window, over entries 4-6, and
\* no timing_jitter window.
C19_SpikeLongSeries ==
    (Reported /\ SpikeSeries /\ Len(velocities) >= 7) => OneSpikeWindow

C19_Witness ==
    /\ Reported /\ SpikeSeries /\ Len(velocities) = 7
    /\ velocities[1] = 1 /\ velocities[5] = 10
    /\ Len(Windows) = 1 /\ Windows[1].type = "motion_spike"

(***************************************************************************)
(* Two analyses side by side (compare_videos, lines 333-334, run in any    *)
(* interleaving): each computes its report from its own locals and writes  *)
(* into its own out_dir; the dashboard is drawn through pyplot, whose      *)
(* figures belong to the process (the current figure is the last one       *)
(* created that is still open).                                            *)
(***************************************************************************)
ParallelInputs ==
    {s \in CompareInputs : /\ s.jerkiness \in {0, MaxJerk}
                           /\ s.jitter = 0 /\ s.estimated_fps = 0}

\* lines 33-224: the report of recording i, from locals only
ComputeReport(i) ==
    /\ apc[i] = "idle"
    /\ \E s \in ParallelInputs : report' = [report EXCEPT ![i] = BuildReport(s)]
    /\ apc' = [apc EXCEPT ![i] = "json"]
    /\ UNCHANGED <<comparison, figures, written, loopVars, extraVars>>

\* lines 260-269: the report and the series, written into out_dir
WriteJson(i) ==
    /\ apc[i] = "json"
    /\ written' = [written EXCEPT ![i].json = report[i]]
    /\ apc' = [apc EXCEPT ![i] = "subplots"]
    /\ UNCHANGED <<report, comparison, figures, loopVars, extraVars>>

\* line 272: plt.subplots makes a new figure, which becomes the current one
Subplots(i) ==
    /\ apc[i] = "subplots"
    /\ figures' = Append(figures, [id |-> i, plotted |-> None])
    /\ apc' = [apc EXCEPT ![i] = "plot"]
    /\ UNCHANGED <<report, comparison, written, loopVars, extraVars>>

\* lines 275-310: the series are drawn on the axes of the analysis' figure
PlotSeries(i) ==
    /\ apc[i] = "plot"
    /\ figures' = [k \in DOMAIN figures |->
                      IF figures[k].id = i
                      THEN [id |-> i, plotted |-> report[i]]
                      ELSE figures[k]]
    /\ apc' = [apc EXCEPT ![i] = "savefig"]
    /\ UNCHANGED <<report, comparison, written, loopVars, extraVars>>

\* line 314: plt.savefig writes the current figure of the process
SaveFig(i) ==
    /\ apc[i] = "savefig"
    /\ written' = [written EXCEPT
                      ![i].dashboard = figures[Len(figures)].plotted]
    /\ apc' = [apc EXCEPT ![i] = "close"]
    /\ UNCHANGED <<report, comparison, figures, loopVars, extraVars>>

\* lines 315-318: plt.close(fig) and the return
CloseFig(i) ==
    /\ apc[i] = "close"
    /\ LET Other(f) == f.id /= i
       IN  figures' = SelectSeq(figures, Other)
    /\ apc' = [apc EXCEPT ![i] = "done"]
    /\ UNCHANGED <<report, comparison, written, loopVars, extraVars>>

NextParallel ==
    \E i \in 1..2 :
        \/ ComputeReport(i)
        \/ WriteJson(i)
        \/ Subplots(i)
        \/ PlotSeries(i)
        \/ SaveFig(i)
        \/ CloseFig(i)

SpecParallel == InitCompare /\ [][NextParallel]_vars

\* C20: in every interleaving of the two analyses, what an analysis has
\* written when it returns is what it writes when it runs alone: its own
\* report in the JSON file, its own series on the dashboard.
C20_OutputsAsAlone ==
    \A i \in 1..2 :
        apc[i] = "done" =>
            /\ written[i].json = report[i]
            /\ written[i].dashboard = report[i]

(***************************************************************************)
(* Further properties of the comparison (SpecCompare).                     *)
(***************************************************************************)
\* C21: compare_videos returns a comparison only when both analyses gave a
\* report: there is never a comparison beside a missing report, and once
\* compare_videos has returned with a report missing it has returned None.
C21_ComparisonNeedsBothReports ==
    /\ Compared => (HasReport(1) /\ HasReport(2))
    /\ (comparison /= Pending /\ (report[1] = None \/ report[2] = None))
          => comparison = None

\* the first recording gave no report, the second one did: no comparison
C21_Witness ==
    /\ report[1] = None /\ HasReport(2)
    /\ comparison = None

\* recording i has the strictly lower jerkiness and the strictly lower
\* jitter of the two
Dominates(i, j) == FLt(Jerk(i), Jerk(j)) /\ FLt(Jitter(i), Jitter(j))

\* C27: when one recording has strictly lower jerkiness and strictly lower
\* jitter than the other, overall_winner names that recording, without a
\* tie marker.
C27_Dominance ==
    Compared =>
        /\ Dominates(1, 2) => comparison.overall_winner = "Video 1"
        /\ Dominates(2, 1) => comparison.overall_winner = "Video 2"

\* two recordings of the same rating, the second one better on both counts
C27_Witness ==
    /\ Compared /\ Dominates(2, 1) /\ Rating(1) = Rating(2)
    /\ comparison.overall_winner = "Video 2"

(***************************************************************************)
(* Further properties of the rating and the issues (SpecRating).           *)
(***************************************************************************)
\* C28: a report is rated Poor exactly when its issue list has the high
\* jerkiness entry or the high frame-time jitter entry; a report rated
\* Excellent, Good or Fair has neither.
C28_PoorIffHighIssue ==
    HasReport(1) =>
        (Rating(1) = "Poor"
           <=> (HasIssue("High jerkiness")
                  \/ HasIssue("High frame-time jitter")))

(***************************************************************************)
(* Further properties of the motion estimation (SpecMotion).               *)
(***************************************************************************)
\* C22: when the two frames differ in size the motion step does not raise,
\* and one activity value is appended for the pair.
C22_MixedSizesEstimated ==
    (pc /= "motion" /\ ~SameShape) =>
        /\ pc = "estimated" /\ result.kind /= "Raised"
        /\ Len(velocities) = 1

\* C24: the blocks used are all the complete blocks of the frame: for h
\* rows, h \div 32 block rows, so the activity is a mean over
\* 32 * (h \div 32) rows of pixels (none when h < 32).
C24_AllCompleteBlocks ==
    (Estimated /\ SameShape) =>
        ActivityValue.den
          = BLOCK_SIZE * (Len(gray_frame.v) \div BLOCK_SIZE)
              * Len(gray_frame.v[1])

MaxMaskLen == 7
Masks == UNION {[1..n -> BOOLEAN] : n \in 0..MaxMaskLen}

RangesFromMask ==
    /\ flag_ranges = Pending
    /\ flag_ranges' = Some(ranges_from_mask(flags))
    /\ UNCHANGED <<flags, uiVars, capVars, report, comparison, outVars,
                   loopVars>>

InitMask ==
    /\ LoopIdle
    /\ report = [i \in 1..2 |-> Pending] /\ comparison = Pending
    /\ OutputIdle /\ DashboardIdle /\ CaptureIdle
    /\ flags \in Masks /\ flag_ranges = Pending

SpecMask == InitMask /\ [][RangesFromMask]_vars

(***************************************************************************)
(* Properties of _ranges_from_mask (SpecMask).                             *)
(***************************************************************************)
\* entries s..e (counted from 0) of the mask are a run of true entries that
\* cannot be extended on either side
MaximalRun(s, e) ==
    /\ 0 <= s /\ s <= e /\ e <= Len(flags) - 1
    /\ \A i \in s..e : flags[i + 1]
    /\ s = 0 \/ ~flags[s]
    /\ e = Len(flags) - 1 \/ ~flags[e + 2]

\* C25: the ranges returned for a mask are exactly its maximal runs of true
\* entries that are at least 2 long, each once, in ascending order and
\* apart from each other; a run that ends at the last entry is among them,
\* runs of one entry are not, and an empty mask gives no range.
C25_MaximalRuns ==
    flag_ranges /= Pending =>
        LET rs == flag_ranges.v
        IN  /\ \A k \in DOMAIN rs :
                   /\ MaximalRun(rs[k][1], rs[k][2])
                   /\ rs[k][2] - rs[k][1] + 1 >= 2
            /\ \A k \in 1..(Len(rs) - 1) : rs[k][2] < rs[k + 1][1]
            /\ \A s \in 0..(Len(flags) - 1) : \A e \in s..(Len(flags) - 1) :
                   (MaximalRun(s, e) /\ e - s + 1 >= 2)
                       => \E k \in DOMAIN rs : rs[k] = <<s, e>>
            /\ flags = <<>> => rs = <<>>

\* a run of one entry, a run inside the mask and a run up to its last entry
C25_Witness ==
    /\ flags = <<TRUE, FALSE, TRUE, TRUE, FALSE, TRUE, TRUE>>
    /\ flag_ranges = Some(<<<<2, 3>>, <<5, 6>>>>)

(***************************************************************************)
(* Further properties of the problem windows (SpecSeries).                 *)
(***************************************************************************)
\* the timing windows of the report, in their order
TimingWindowsOf(r) ==
    SelectSeq(r.problem_windows, LAMBDA w : w.type = "timing_jitter")

\* the timestamp of sample j >= 1, counting the samples from 0: the first
\* sample has no entry in sample_times (line 85 follows the first pair)
StampOfSample(j) == sample_times[j]

\* C26: each range s..e of out-of-band intervals gives a timing window that
\* starts at the timestamp of sample s + 1 and ends at the timestamp of
\* sample e + 1, the samples that close intervals s and e, and the array of
\* timestamps it reads is one longer than the interval series.
C26_TimingOffsetPlusOne ==
    Reported =>
        LET rs == ranges_from_mask(timing_mask(frame_intervals))
            tw == TimingWindowsOf(result)
        IN  /\ Len(tw) = Len(rs)
            /\ \A k \in DOMAIN rs :
                   /\ tw[k].start_sec = Sec(StampOfSample(rs[k][1] + 1))
                   /\ tw[k].end_sec = Sec(StampOfSample(rs[k][2] + 1))
                   /\ Len(sample_times) = Len(frame_intervals) + 1

(***************************************************************************)
(* The compare button of the dashboard (dashboard.py, lines 303-305 and    *)
(* 358-427).  The Tk thread runs _upload_two_videos when the button is     *)
(* pressed, which Tk allows while the button is in state normal and the    *)
(* thread is in its main loop (the file dialogs are modal); the handler    *)
(* starts a worker thread and returns.  The worker threads run side by     *)
(* side with the Tk thread.  A path is "" when the dialog was cancelled,   *)
(* "missing" when no file is there, "video" otherwise.                     *)
(***************************************************************************)
Paths == {"", "missing", "video"}
Outcomes == {"comparison", "None", "raised"}
InMainloop == [at |-> "mainloop", video_path1 |-> ""]

\* a worker thread that has been started and has not left its function
Active(w) == worker_pc[w] \notin {"unborn", "finished"}

\* lines 303-305
set_buttons_state(enabled) == IF enabled THEN "normal" ELSE "disabled"

\* lines 111-116, 358-367: the button is pressed, the first dialog opens;
\* no more than MaxWorkers threads are followed
ClickCompare ==
    /\ compare_btn = "normal"
    /\ ui_pc = InMainloop
    /\ \E w \in 1..MaxWorkers : worker_pc[w] = "unborn"
    /\ ui_pc' = [at |-> "first_dialog", video_path1 |-> ""]
    /\ UNCHANGED <<compare_btn, worker_pc, comparison_mode, maskVars,
                   capVars, report, comparison, outVars, loopVars>>

\* lines 360-380: the first path is chosen, the second dialog opens
ChooseFirst ==
    /\ ui_pc.at = "first_dialog"
    /\ \E p \in Paths :
          ui_pc' = IF p = "" THEN InMainloop
                   ELSE [at |-> "second_dialog", video_path1 |-> p]
    /\ UNCHANGED <<compare_btn, worker_pc, comparison_mode, maskVars,
                   capVars, report, comparison, outVars, loopVars>>

\* lines 372-402 and 427: the second path is chosen; with two files that
\* exist the worker thread is started, and the handler returns
ChooseSecond ==
    /\ ui_pc.at = "second_dialog"
    /\ \E p \in Paths :
          IF p = "" \/ ui_pc.video_path1 = "missing" \/ p = "missing"
          THEN UNCHANGED <<worker_pc, comparison_mode>>
          ELSE /\ comparison_mode' = TRUE
               /\ LET w == CHOOSE v \in 1..MaxWorkers :
                               /\ worker_pc[v] = "unborn"
                               /\ \A u \in 1..(v - 1) : worker_pc[u] /= "unborn"
                  IN  worker_pc' = [worker_pc EXCEPT ![w] = "started"]
    /\ ui_pc' = InMainloop
    /\ UNCHANGED <<compare_btn, maskVars, capVars, report, comparison,
                   outVars, loopVars>>

\* lines 404-406: the first statement of the worker disables the button
WorkerDisables(w) ==
    /\ worker_pc[w] = "started"
    /\ compare_btn' = set_buttons_state(FALSE)
    /\ worker_pc' = [worker_pc EXCEPT ![w] = "comparing"]
    /\ UNCHANGED <<ui_pc, comparison_mode, maskVars, capVars, report,
                   comparison, outVars, loopVars>>

\* lines 407-422: compare_videos returns a comparison, returns None or
\* raises; each way leads to the finally clause
WorkerCompares(w) ==
    /\ worker_pc[w] = "comparing"
    /\ \E o \in Outcomes :
          worker_pc' = [worker_pc EXCEPT ![w] = o]
    /\ UNCHANGED <<compare_btn, ui_pc, comparison_mode, maskVars, capVars,
                   report, comparison, outVars, loopVars>>

\* lines 423-424: the finally clause enables the button
WorkerEnables(w) ==
    /\ worker_pc[w] \in Outcomes
    /\ compare_btn' = set_buttons_state(TRUE)
    /\ worker_pc' = [worker_pc EXCEPT ![w] = "enabled"]
    /\ UNCHANGED <<ui_pc, comparison_mode, maskVars, capVars, report,
                   comparison, outVars, loopVars>>

\* line 425: the worker ends
WorkerLeaves(w) ==
    /\ worker_pc[w] = "enabled"
    /\ comparison_mode' = FALSE
    /\ worker_pc' = [worker_pc EXCEPT ![w] = "finished"]
    /\ UNCHANGED <<compare_btn, ui_pc, maskVars, capVars, report,
                   comparison, outVars, loopVars>>

NextDashboard ==
    \/ ClickCompare
    \/ ChooseFirst
    \/ ChooseSecond
    \/ \E w \in 1..MaxWorkers : WorkerDisables(w)
    \/ \E w \in 1..MaxWorkers : WorkerCompares(w)
    \/ \E w \in 1..MaxWorkers : WorkerEnables(w)
    \/ \E w \in 1..MaxWorkers : WorkerLeaves(w)

SpecDashboard == InitCompare /\ [][NextDashboard]_vars

(***************************************************************************)
(* Properties of the compare button (SpecDashboard).                       *)
(***************************************************************************)
\* C29: at most one comparison worker is active at any time (no press of
\* the button starts a second one), and the button that a worker has
\* disabled stays disabled until the end of that worker enables it.
C29_OneWorkerAtATime ==
    /\ Cardinality({w \in 1..MaxWorkers : Active(w)}) <= 1
    /\ \A w \in 1..MaxWorkers :
           worker_pc[w] \in {"comparing"} \cup Outcomes
               => compare_btn = "disabled"

(***************************************************************************)
(* The capture loop of run_until_end (realtime_analyzer.py, lines 23-56)   *)
(* with FrameAnalyzer.screen_moved (analyzer.py, lines 21-39).  What the   *)
(* device shows is an input: a capture is a row of CapPixels grey pixels,  *)
(* all captures of one size, or a file that cannot be read.  The loop is   *)
(* followed for MaxCaptures captures.                                      *)
(***************************************************************************)
CapPixels == 100
MaxCaptures == 5

\* realtime_analyzer.py line 29, analyzer.py line 33, and line 25 as the
\* fraction 15 / 1000
max_no_move == 3
CHANGED_ABOVE == 20
movement_threshold == [num |-> 15, den |-> 1000]

\* a screen whose first k pixels have grey level v, the other ones 0
Screen(k, v) == [i \in 1..CapPixels |-> IF i <= k THEN v ELSE 0]
\* a screen, the same with 1 pixel in 100 changed, with 2 pixels changed,
\* and with 2 pixels changed by no more than the level that counts
Screens == {Screen(0, 0), Screen(1, 255), Screen(2, 255), Screen(2, 20)}

\* analyzer.py lines 21-35: the share of pixels that differ by more than
\* CHANGED_ABOVE, as a fraction
frame_difference_ratio(frame1, frame2) ==
    [num |-> Cardinality({i \in DOMAIN frame1 :
                             Abs(frame1[i] - frame2[i]) > CHANGED_ABOVE}),
     den |-> Len(frame1)]

\* analyzer.py lines 37-39: ratio > movement_threshold
screen_moved(frame1, frame2) ==
    LET ratio == frame_difference_ratio(frame1, frame2)
    IN  ratio.num * movement_threshold.den > movement_threshold.num * ratio.den

\* lines 24-35: the first screenshot is taken and read
StartCapture ==
    /\ cap_pc = "idle"
    /\ \E f \in Screens :
          /\ prev_shot' = Some(f)
          /\ shots' = <<f>>
    /\ cap_pc' = "loop"
    /\ UNCHANGED <<frame_counter, no_move_count, maskVars, uiVars, report,
                   comparison, outVars, loopVars>>

\* lines 10-17, 35: the first screenshot cannot be read, _read_frame raises
StartUnreadable ==
    /\ cap_pc = "idle"
    /\ cap_pc' = "raised"
    /\ UNCHANGED <<frame_counter, no_move_count, prev_shot, shots, maskVars,
                   uiVars, report, comparison, outVars, loopVars>>

\* lines 10-17, 38-41: a capture cannot be read, _read_frame raises
CaptureUnreadable ==
    /\ cap_pc = "loop" /\ frame_counter < MaxCaptures
    /\ frame_counter' = frame_counter + 1
    /\ cap_pc' = "raised"
    /\ UNCHANGED <<no_move_count, prev_shot, shots, maskVars, uiVars,
                   report, comparison, outVars, loopVars>>

\* the pass that counts the captures without movement and never starts
\* the count again
Capture_NoReset ==
    /\ cap_pc = "loop" /\ frame_counter < MaxCaptures
    /\ frame_counter' = frame_counter + 1
    /\ \E new_frame \in Screens :
          LET moved == screen_moved(prev_shot.v, new_frame)
              count == IF moved THEN no_move_count ELSE no_move_count + 1
          IN  /\ shots' = Append(shots, new_frame)
              /\ no_move_count' = count
              /\ IF count >= max_no_move
                 THEN cap_pc' = "analyze" /\ UNCHANGED prev_shot
                 ELSE cap_pc' = "loop" /\ prev_shot' = Some(new_frame)
    /\ UNCHANGED <<maskVars, uiVars, report, comparison, outVars, loopVars>>

\* lines 37-56: one pass of the loop with a capture that can be read
Capture ==
    /\ cap_pc = "loop" /\ frame_counter < MaxCaptures
    /\ frame_counter' = frame_counter + 1
    /\ \E new_frame \in Screens :
          LET moved == screen_moved(prev_shot.v, new_frame)
              count == IF moved THEN 0 ELSE no_move_count + 1
          IN  /\ shots' = Append(shots, new_frame)
              /\ no_move_count' = count
              /\ IF count >= max_no_move
                 THEN cap_pc' = "analyze" /\ UNCHANGED prev_shot
                 ELSE cap_pc' = "loop" /\ prev_shot' = Some(new_frame)
    /\ UNCHANGED <<maskVars, uiVars, report, comparison, outVars, loopVars>>

NextCapture ==
    \/ StartCapture
    \/ StartUnreadable
    \/ CaptureUnreadable
    \/ Capture

SpecCapture == InitCompare /\ [][NextCapture]_vars

(***************************************************************************)
(* Properties of the capture loop (SpecCapture).                           *)
(***************************************************************************)
\* capture i >= 1 shows movement against the capture before it: more than
\* 15 in 1000 pixels differ by more than 20 grey levels
ShowsMovement(i) ==
    LET differing == {p \in 1..CapPixels :
                         \/ shots[i + 1][p] - shots[i][p] > 20
                         \/ shots[i][p] - shots[i + 1][p] > 20}
    IN  1000 * Cardinality(differing) > 15 * CapPixels

\* the captures read so far, and the still ones at their end
Captures == Len(shots) - 1
StillRun(n) ==
    /\ n <= Captures
    /\ \A i \in (Captures - n + 1)..Captures : ~ShowsMovement(i)
TrailingStill ==
    CHOOSE n \in 0..Captures : StillRun(n) /\ ~StillRun(n + 1)

\* captures i, i + 1, i + 2 show no movement
ThreeStillFrom(i) == \A k \in i..(i + 2) : ~ShowsMovement(k)

\* C30: while run_until_end reads its captures, no_move_count is the
\* number of captures without movement since the last one with movement
\* (0 after a capture with movement), it stays within 0..3, and the loop
\* is left for the analysis exactly when the last 3 captures show no
\* movement, which has not happened at any earlier capture; as long as no
\* 3 captures in a row are without movement the loop goes on.
C30_ExitAtThreeStill ==
    cap_pc \in {"loop", "analyze"} =>
        /\ no_move_count \in 0..max_no_move
        /\ frame_counter = Captures
        /\ no_move_count = TrailingStill
        /\ (cap_pc = "analyze") <=> StillRun(3)
        /\ \A i \in 1..(Captures - 3) : ~ThreeStillFrom(i)
        /\ (\A i \in 1..(Captures - 2) : ~ThreeStillFrom(i)) => cap_pc = "loop"

\* a capture without movement (2 pixels changed by 20 levels), one with
\* movement, then three without (1 pixel in 100 changed): the loop is left
\* at the fifth capture
C30_Witness ==
    /\ cap_pc = "analyze" /\ frame_counter = 5 /\ no_move_count = 3
    /\ shots = <<Screen(0, 0), Screen(2, 20), Screen(2, 255), Screen(1, 255),
                 Screen(2, 255), Screen(1, 255)>>

====
